---- MODULE Spec2Model ----
(***************************************************************************)
(* SplashMiddleware (scrapyjs/middleware.py): a downloader middleware that *)
(* rewrites requests carrying a 'splash' meta key into POST requests to a  *)
(* Splash rendering endpoint and counts requests and responses.            *)
(*                                                                         *)
(* Python values are modelled as follows.                                  *)
(*   - A dict with string keys is a record with one field per key; the     *)
(*     value of a field is <<>> when the key is missing and <<v>> when the *)
(*     key maps to v.                                                      *)
(*   - Dicts the caller attaches to requests (the 'splash' options and     *)
(*     their 'args') are mutable objects with identity: they live in the   *)
(*     heaps `options` and `args` and are referred to by id.               *)
(*   - A URL string is the record of its parts, [host, port, dir, file];   *)
(*     the empty string is EmptyUrl.                                       *)
(***************************************************************************)
EXTENDS Integers, Sequences, FiniteSets, TLC

VARIABLES
    mw,             \* the middleware instance built by from_crawler
    options,        \* heap of 'splash' option dicts, by id
    args,           \* heap of 'args' dicts, by id
    callerOptions,  \* the option dicts as the caller wrote them
    callerArgs,     \* the 'args' dicts as the caller wrote them
    stats,          \* crawler.stats: counter key -> value
    scheduled,      \* requests a hook returned to the engine for scheduling
    sent,           \* requests handed on to the downloader
    issued,         \* number of requests the spider has issued
    assigned,       \* <<policy, original host, download_slot>> of each rewrite
    last            \* the most recent hook call: its input and its outcome

vars == <<mw, options, args, callerOptions, callerArgs, stats, scheduled, sent,
          issued, assigned, last>>

(***************************************************************************)
(* Bounds                                                                  *)
(***************************************************************************)
MaxRequests == 2

(***************************************************************************)
(* Python helpers                                                          *)
(***************************************************************************)
None == <<>>

Some(v) == <<v>>

Has(d, k) == d[k] # None

\* d.get(k, default)
Get(d, k, default) == IF Has(d, k) THEN d[k][1] ELSE default

Max(a, b) == IF a > b THEN a ELSE b

(***************************************************************************)
(* URLs                                                                    *)
(***************************************************************************)
Url(h, p, d, f) == [host |-> h, port |-> p, dir |-> d, file |-> f]

EmptyUrl == Url("", 0, "", "")

\* urljoin(base, rel) for a relative reference rel without a slash: rel
\* replaces whatever follows the last slash of base's path.
urljoin(base, rel) ==
    [base EXCEPT !.dir = IF @ = "" THEN "/" ELSE @, !.file = rel]

\* urlparse(url): the parts setup_variables_for_proxy_usage reads.
urlparse(url) == [hostname |-> url.host, port |-> url.port]

(***************************************************************************)
(* Requests, metadata and the caller's dicts                               *)
(***************************************************************************)
MetaKeys == {"splash", "_splash_processed", "download_slot", "download_timeout",
             "proxy", "dont_redirect"}

EmptyMeta == [k \in MetaKeys |-> None]

OptionKeys == {"args", "endpoint", "splash_url", "slot_policy", "meta"}

EmptyOptions == [k \in OptionKeys |-> None]

ArgKeys == {"url", "timeout", "baseurl", "lua_source"}

EmptyArgs == [k \in ArgKeys |-> None]

\* Truth value of a dict: an empty dict is false.
Truthy(d) == \E k \in DOMAIN d : d[k] # None

\* The dict that splash_options.setdefault('args', {}) creates for the
\* options dict o: a fresh object, named after o.
NewDict(o) == o

\* dict.update(other): the keys of other replace those of d.
Update(d, other) == [k \in DOMAIN d |-> IF k \in DOMAIN other THEN other[k] ELSE d[k]]

\* json.dumps(args): the text of a JSON object holding the keys args has at
\* the time of the call, with their values; later writes to args do not
\* change it.
JsonDumps(a) == [k \in {j \in DOMAIN a : a[j] # None} |-> a[k][1]]

\* float(x) of a number keeps its value (numbers are integers here).
float(x) == x

Request(url, method, meta, headers) ==
    [url |-> url, method |-> method, body |-> None, meta |-> meta, headers |-> headers]

(***************************************************************************)
(* SlotPolicy and the class attributes of SplashMiddleware                 *)
(***************************************************************************)
PER_DOMAIN == "per_domain"

SINGLE_SLOT == "single_slot"

SCRAPY_DEFAULT == "scrapy_default"

_known == {PER_DOMAIN, SINGLE_SLOT, SCRAPY_DEFAULT}

default_splash_url == Url("127.0.0.1", 8050, "", "")

default_endpoint == "render.json"

splash_extra_timeout == 5

default_policy == PER_DOMAIN

\* meta.get('download_timeout', 1e6): no timeout means infinite timeout
NoTimeout == 1000000

Endpoints == {"render.json", "render.html", "execute"}

Statuses == {200, 404}

\* 'splash/%s/request_count' % endpoint
RequestCountKey(endpoint) == <<endpoint, "request_count", 0>>

\* 'splash/%s/response_count/%s' % (endpoint, response.status)
ResponseCountKey(endpoint, status) == <<endpoint, "response_count", status>>

StatKeys == {RequestCountKey(e) : e \in Endpoints}
            \cup {ResponseCountKey(e, s) : e \in Endpoints, s \in Statuses}

\* crawler.stats.inc_value(key)
inc_value(st, key) == [st EXCEPT ![key] = @ + 1]

\* w3lib.http.basic_auth_header(user, passwd)
basic_auth_header(user, passwd) == <<"Basic", user, passwd>>

(***************************************************************************)
(* SplashMiddleware: construction                                          *)
(***************************************************************************)
NoMiddleware ==
    [state |-> "unconfigured", splash_base_url |-> EmptyUrl, slot_policy |-> "",
     splash_auth |-> None]

\* SplashMiddleware.__init__(crawler, splash_base_url, slot_policy)
__init__(settings, splash_base_url, slot_policy) ==
    LET user == Get(settings, "SPLASH_USER", "")
        passwd == Get(settings, "SPLASH_PASS", "")
    IN  [state |-> "active",
         splash_base_url |-> splash_base_url,
         slot_policy |-> slot_policy,
         splash_auth |-> IF user # "" THEN Some(basic_auth_header(user, passwd))
                         ELSE None]

\* The outcome of from_crawler without the check of the policy name.
from_crawler_unchecked(settings) ==
    __init__(settings,
             Get(settings, "SPLASH_URL", default_splash_url),
             Get(settings, "SPLASH_SLOT_POLICY", default_policy))

\* SplashMiddleware.from_crawler(crawler): the instance, or NotConfigured
\* raised (no instance: the policy named is kept to show what was refused).
from_crawler_result(settings) ==
    LET splash_base_url == Get(settings, "SPLASH_URL", default_splash_url)
        slot_policy == Get(settings, "SPLASH_SLOT_POLICY", default_policy)
    IN  IF slot_policy \notin _known
        THEN [NoMiddleware EXCEPT !.state = "NotConfigured", !.slot_policy = slot_policy]
        ELSE __init__(settings, splash_base_url, slot_policy)

(***************************************************************************)
(* SplashMiddleware: download slots                                        *)
(***************************************************************************)
\* self.crawler.engine.downloader._get_slot_key(request, None): the
\* downloader's own key for a request, the host name of its URL.
_get_slot_key(request) == request.url.host

\* _set_download_slot with the first two branches exchanged.
_set_download_slot_swapped(request, meta, slot_policy) ==
    IF slot_policy = SINGLE_SLOT
    THEN [meta EXCEPT !.download_slot = Some(_get_slot_key(request))]
    ELSE IF slot_policy = PER_DOMAIN
    THEN [meta EXCEPT !.download_slot = Some("__splash__")]
    ELSE meta

_set_download_slot(request, meta, slot_policy) ==
    IF slot_policy = PER_DOMAIN
    THEN [meta EXCEPT !.download_slot = Some(_get_slot_key(request))]
    ELSE IF slot_policy = SINGLE_SLOT
    THEN [meta EXCEPT !.download_slot = Some("__splash__")]
    ELSE IF slot_policy = SCRAPY_DEFAULT
    THEN meta
    ELSE meta

(***************************************************************************)
(* SplashMiddleware: proxy usage through a Lua script                      *)
(***************************************************************************)
\* ",\n".join('["%s"] = "%s"' % (k, v[0]) for k, v in headers.iteritems())
headers_as_lua_list(headers) == {<<h[1], h[2][1]>> : h \in headers}

baseurl_as_lua_str(a) ==
    IF Has(a, "baseurl") /\ a.baseurl[1] # ""
    THEN "\"" \o a.baseurl[1] \o "\""
    ELSE "nil"

\* script % (host, port, headers_as_lua_list(), baseurl_as_lua_str()): the
\* text of the template with its four places filled.
LuaScript(host, port, lua_headers, baseurl) ==
    [set_proxy |-> [host |-> host, port |-> port],
     set_custom_headers |-> lua_headers,
     go |-> [url |-> "splash.args.url", baseurl |-> baseurl]]

\* setup_variables_for_proxy_usage(args, meta, splash_options, headers), with
\* args the dict a of the heap A and splash_options the dict o of the heap O.
setup_variables_for_proxy_usage(A, a, meta, O, o, headers) ==
    LET parsed_proxy_url == urlparse(meta.proxy[1])
        host == parsed_proxy_url.hostname
        port == parsed_proxy_url.port
        script == LuaScript(host, port, headers_as_lua_list(headers),
                            baseurl_as_lua_str(A[a]))
    IN  [args |-> [A EXCEPT ![a].lua_source = Some(script)],
         options |-> [O EXCEPT ![o].endpoint = Some("execute")],
         meta |-> [meta EXCEPT !.proxy = None]]

(***************************************************************************)
(* SplashMiddleware.process_request, step by step                          *)
(***************************************************************************)
\* `not splash_options` taken as `splash_options is None`.
HasAttachmentKeyOnly(request, O) == request.meta.splash # None

\* splash_options = request.meta.get('splash'); `not splash_options` fails
HasAttachment(request, O) ==
    /\ request.meta.splash # None
    /\ Truthy(O[request.meta.splash[1]])

\* The marker set without deleting meta['splash'].
MarkProcessedKeepingSplash(meta, o) == [meta EXCEPT !._splash_processed = Some(o)]

\* del meta['splash']; meta['_splash_processed'] = splash_options
MarkProcessed(meta, o) ==
    [meta EXCEPT !.splash = None, !._splash_processed = Some(o)]

\* The timeout assigned whenever args has one, also when it lowers it.
ReconcileTimeoutAlways(meta, a) ==
    IF Has(a, "timeout")
    THEN [meta EXCEPT !.download_timeout =
              Some(float(a.timeout[1]) + splash_extra_timeout)]
    ELSE meta

\* if 'timeout' in args: ... meta['download_timeout'] = timeout_expected
ReconcileTimeout(meta, a) ==
    IF Has(a, "timeout")
    THEN LET timeout_current == Get(meta, "download_timeout", NoTimeout)
             timeout_expected == float(a.timeout[1]) + splash_extra_timeout
         IN  IF timeout_expected > timeout_current
             THEN [meta EXCEPT !.download_timeout = Some(timeout_expected)]
             ELSE meta
    ELSE meta

\* Headers({'Content-Type': 'application/json'}), and Authorization when
\* self.splash_auth is set.
SplashHeaders(self) ==
    {<<"Content-Type", <<"application/json">>>>}
    \cup (IF self.splash_auth # None
          THEN {<<"Authorization", <<self.splash_auth[1]>>>>}
          ELSE {})

\* What a call of process_request leaves behind:
\*   ret      what it returns: None, or Some(request)
\*   meta     request.meta after the call (it is changed in place)
\*   options, args   the heaps after the call
\*   counted  the stats key it incremented, if any
\*   warned   whether it logged the warning
\*   policy   the slot policy it applied, if any
Outcome(ret, meta, O, A, counted, warned, policy) ==
    [ret |-> ret, meta |-> meta, options |-> O, args |-> A, counted |-> counted,
     warned |-> warned, policy |-> policy]

\* The rewriting branch of process_request (from `meta = request.meta` on),
\* for a request whose meta['splash'] is the dict o.
rewrite(self, request, o, O, A) ==
    LET meta1 == MarkProcessed(request.meta, o)
        slot_policy == Get(O[o], "slot_policy", self.slot_policy)
        meta2 == _set_download_slot(request, meta1, slot_policy)
        \* args = splash_options.setdefault('args', {})
        a == Get(O[o], "args", NewDict(o))
        O1 == [O EXCEPT ![o].args = Some(a)]
        \* args.setdefault('url', request.url)
        A1 == IF Has(A[a], "url") THEN A ELSE [A EXCEPT ![a].url = Some(request.url)]
        \* if meta.get('proxy'):
        useProxy == Has(meta2, "proxy") /\ meta2.proxy[1] # EmptyUrl
        px == setup_variables_for_proxy_usage(A1, a, meta2, O1, o, request.headers)
        A2 == IF useProxy THEN px.args ELSE A1
        O2 == IF useProxy THEN px.options ELSE O1
        meta3 == IF useProxy THEN px.meta ELSE meta2
        body == JsonDumps(A2[a])
        meta4 == ReconcileTimeout(meta3, A2[a])
        \* endpoint = splash_options.setdefault('endpoint', self.default_endpoint)
        endpoint == Get(O2[o], "endpoint", default_endpoint)
        O3 == [O2 EXCEPT ![o].endpoint = Some(endpoint)]
        splash_base_url == Get(O3[o], "splash_url", self.splash_base_url)
        splash_url == urljoin(splash_base_url, endpoint)
        \* splash_meta = meta.copy(); splash_meta.update(splash_options.get('meta', {}))
        splash_meta == Update(meta4, Get(O3[o], "meta", <<>>))
        req_rep == [url |-> splash_url, method |-> "POST", body |-> Some(body),
                    meta |-> splash_meta, headers |-> SplashHeaders(self)]
    IN  Outcome(Some(req_rep), meta4, O3, A2, Some(RequestCountKey(endpoint)),
                FALSE, Some(slot_policy))

\* process_request(request, spider) on the heaps O and A.
process_request_result(self, request, O, A) ==
    IF ~HasAttachment(request, O)
    THEN Outcome(None, request.meta, O, A, None, FALSE, None)
    ELSE IF request.method # "GET"
    THEN Outcome(Some(request), request.meta, O, A, None, TRUE, None)
    ELSE rewrite(self, request, request.meta.splash[1], O, A)

(***************************************************************************)
(* The hooks as the engine calls them                                      *)
(***************************************************************************)
ZeroStats == [k \in StatKeys |-> 0]

Response(status) == [status |-> status, body |-> "<html>"]

NoCall ==
    [op |-> "none", self |-> NoMiddleware, request |-> None, meta |-> None,
     ret |-> None, warned |-> FALSE, policy |-> None, stats |-> ZeroStats,
     options |-> <<>>, args |-> <<>>, response |-> None, returned |-> None]

\* `last` keeps, of the most recent hook call: the hook (op), the instance,
\* stats and heaps as they were before it, the request (and response) it was
\* given, request.meta after it, what it returned, whether it logged the
\* warning and the slot policy it applied.

\* Settings the crawler may hold.
Settings(url, policy, user, passwd) ==
    [SPLASH_URL |-> url, SPLASH_SLOT_POLICY |-> policy, SPLASH_USER |-> user,
     SPLASH_PASS |-> passwd]

\* from_crawler(crawler): called once, before any request is processed.
from_crawler(settings) ==
    /\ mw.state = "unconfigured"
    /\ mw' = from_crawler_result(settings)
    /\ last' = [NoCall EXCEPT !.op = "from_crawler", !.self = mw, !.stats = stats]
    /\ UNCHANGED <<options, args, callerOptions, callerArgs, stats, scheduled,
                   sent, issued, assigned>>

\* The engine calls process_request(request, spider); `rest` are the other
\* requests waiting to be scheduled.  A hook that returns None lets the
\* request go on to the downloader; a hook that returns a Request hands that
\* request to the engine, which schedules it (and it comes back to the hook).
process_request(request, rest) ==
    /\ mw.state = "active"
    /\ LET out == process_request_result(mw, request, options, args)
       IN  /\ options' = out.options
           /\ args' = out.args
           /\ stats' = IF out.counted # None THEN inc_value(stats, out.counted[1])
                       ELSE stats
           /\ scheduled' = IF out.ret = None THEN rest ELSE rest \cup {out.ret[1]}
           /\ sent' = IF out.ret = None
                      THEN sent \cup {[request EXCEPT !.meta = out.meta]}
                      ELSE sent
           /\ assigned' = IF out.policy # None
                          THEN assigned \cup {<<out.policy[1], request.url.host,
                                                out.ret[1].meta.download_slot>>}
                          ELSE assigned
           /\ last' = [NoCall EXCEPT !.op = "process_request", !.self = mw,
                          !.request = Some(request), !.meta = Some(out.meta),
                          !.ret = out.ret, !.warned = out.warned,
                          !.policy = out.policy, !.stats = stats,
                          !.options = options, !.args = args]
    /\ UNCHANGED <<mw, callerOptions, callerArgs>>

\* process_response(request, response, spider)
process_response(request, response) ==
    /\ mw.state = "active"
    /\ LET splash_options == request.meta._splash_processed
           processed == splash_options # None /\ Truthy(options[splash_options[1]])
       IN  stats' = IF processed
                    THEN inc_value(stats,
                             ResponseCountKey(options[splash_options[1]].endpoint[1],
                                              response.status))
                    ELSE stats
    /\ sent' = sent \ {request}
    /\ last' = [NoCall EXCEPT !.op = "process_response", !.self = mw,
                   !.request = Some(request), !.meta = Some(request.meta),
                   !.stats = stats, !.options = options, !.args = args,
                   !.response = Some(response), !.returned = Some(response)]
    /\ UNCHANGED <<mw, options, args, callerOptions, callerArgs, scheduled, issued,
                   assigned>>

\* The spider issues one of the requests R.
Crawl(R) ==
    /\ issued < MaxRequests
    /\ issued' = issued + 1
    /\ \E request \in R : process_request(request, scheduled)

\* The engine schedules a request a hook returned.
Reschedule ==
    /\ issued' = issued
    /\ \E request \in scheduled : process_request(request, scheduled \ {request})

\* The downloader delivers the response of a request it was handed.
Deliver ==
    \E request \in sent, status \in Statuses :
        process_response(request, Response(status))

(***************************************************************************)
(* The caller: URLs, dicts and requests                                    *)
(***************************************************************************)
UrlA1 == Url("a.example.com", 80, "/", "page1")

UrlA2 == Url("a.example.com", 80, "/", "page2")

UrlB1 == Url("b.example.com", 80, "/", "page1")

UrlGiven == Url("given.example.com", 80, "/", "given")

OtherSplashUrl == Url("splash.example.com", 8050, "/", "")

ProxyUrl == Url("proxy.example.com", 3128, "", "")

BrowserHeaders == {<<"User-Agent", <<"bot", "second value">>>>}

OptIds == {"o0", "o1", "o2"}

ArgIds == {"a1"} \cup {NewDict(o) : o \in OptIds}

Meta(splash, proxy, slot, timeout) ==
    [EmptyMeta EXCEPT !.splash = splash, !.proxy = proxy, !.download_slot = slot,
                      !.download_timeout = timeout]

Get_(url, splash, proxy) ==
    Request(url, "GET", Meta(splash, proxy, None, None), BrowserHeaders)

Post_(url, splash) ==
    Request(url, "POST", Meta(splash, None, None, None), BrowserHeaders)

Heap(O, A) ==
    /\ options = O
    /\ args = A
    /\ callerOptions = O
    /\ callerArgs = A

Start ==
    /\ mw = NoMiddleware
    /\ stats = ZeroStats
    /\ scheduled = {}
    /\ sent = {}
    /\ issued = 0
    /\ assigned = {}
    /\ last = NoCall

NoArgs == [a \in ArgIds |-> EmptyArgs]

(***************************************************************************)
(* Spec: attachments, methods, proxies, dicts shared between requests      *)
(***************************************************************************)
MetaOverrides == [dont_redirect |-> Some(TRUE)]

MainSettings ==
    {Settings(None, None, None, None),
     Settings(Some(OtherSplashUrl), None, Some("user"), Some("secret"))}

MainOptions ==
    {[o0 |-> EmptyOptions,
      o1 |-> o1,
      o2 |-> [EmptyOptions EXCEPT !.args = Some("a1"), !.endpoint = Some("render.html"),
                                  !.splash_url = Some(OtherSplashUrl)]] :
       o1 \in {[EmptyOptions EXCEPT !.args = Some("a1")],
               [EmptyOptions EXCEPT !.meta = Some(MetaOverrides)]}}

MainArgs ==
    {[NoArgs EXCEPT !["a1"] = a1] :
       a1 \in {EmptyArgs,
               [EmptyArgs EXCEPT !.url = Some(UrlGiven),
                                 !.baseurl = Some("http://cdn.example.com/")]}}

MainRequests ==
    {Get_(u, Some(o), p) : u \in {UrlA1, UrlB1}, o \in {"o1", "o2"},
                           p \in {None, Some(ProxyUrl)}}
    \cup {Get_(UrlA1, None, None), Get_(UrlA1, Some("o0"), None),
          Get_(UrlA1, Some("o1"), Some(EmptyUrl)), Get_(UrlA1, None, Some(ProxyUrl)),
          Post_(UrlA1, Some("o1")), Post_(UrlA1, None)}

Init ==
    /\ Start
    /\ \E O \in MainOptions, A \in MainArgs : Heap(O, A)

Next ==
    \/ \E settings \in MainSettings : from_crawler(settings)
    \/ Crawl(MainRequests)
    \/ Reschedule
    \/ Deliver

Spec == Init /\ [][Next]_vars

(***************************************************************************)
(* SpecSlot: slot policies, configured and per request                     *)
(***************************************************************************)
PolicyNames == {None, Some(PER_DOMAIN), Some(SINGLE_SLOT), Some(SCRAPY_DEFAULT),
                Some("bogus")}

SlotSettings == {Settings(None, p, None, None) : p \in PolicyNames}

SlotOptions ==
    {[o0 |-> EmptyOptions,
      o1 |-> [EmptyOptions EXCEPT !.args = Some("a1"), !.slot_policy = p],
      o2 |-> [EmptyOptions EXCEPT !.args = Some("a1")]] : p \in PolicyNames}

SlotRequests ==
    {Request(u, "GET", Meta(Some(o), None, slot, None), BrowserHeaders) :
        u \in {UrlA1, UrlA2, UrlB1}, o \in {"o1", "o2"},
        slot \in {None, Some("custom")}}

InitSlot ==
    /\ Start
    /\ \E O \in SlotOptions : Heap(O, NoArgs)

NextSlot ==
    \/ \E settings \in SlotSettings : from_crawler(settings)
    \/ Crawl(SlotRequests)
    \/ Reschedule
    \/ Deliver

SpecSlot == InitSlot /\ [][NextSlot]_vars

(***************************************************************************)
(* SpecTimeout: the Splash timeout and download_timeout                    *)
(***************************************************************************)
TimeoutArgs ==
    {[NoArgs EXCEPT !["a1"] = [EmptyArgs EXCEPT !.timeout = t]] :
        t \in {None, Some(0), Some(10), Some(NoTimeout)}}

TimeoutOptions ==
    [o0 |-> EmptyOptions,
     o1 |-> [EmptyOptions EXCEPT !.args = Some("a1")],
     o2 |-> [EmptyOptions EXCEPT !.endpoint = Some("render.html")]]

TimeoutRequests ==
    {Request(UrlA1, "GET", Meta(Some(o), None, None, t), BrowserHeaders) :
        o \in {"o1", "o2"}, t \in {None, Some(5), Some(20)}}

InitTimeout ==
    /\ Start
    /\ \E A \in TimeoutArgs : Heap(TimeoutOptions, A)

NextTimeout ==
    \/ from_crawler(Settings(None, None, None, None))
    \/ Crawl(TimeoutRequests)
    \/ Reschedule
    \/ Deliver

SpecTimeout == InitTimeout /\ [][NextTimeout]_vars

(***************************************************************************)
(* Properties                                                              *)
(***************************************************************************)
CalledRequestHook == last.op = "process_request"

CalledResponseHook == last.op = "process_response"

\* The request the last hook call was given, and the request it returned.
Given == last.request[1]

Returned == last.ret[1]

\* The request given carried a non-empty 'splash' dict when the hook was called.
Attached ==
    /\ Given.meta.splash # None
    /\ \E k \in OptionKeys : last.options[Given.meta.splash[1]][k] # None

\* The last hook call rewrote a GET request.
Rewrote == CalledRequestHook /\ Given.method = "GET" /\ Attached

\* The last hook call changed nothing but `last` itself.
NoEffect ==
    /\ last.meta[1] = Given.meta
    /\ stats = last.stats
    /\ options = last.options
    /\ args = last.args
    /\ mw = last.self

\* The body of the request returned, as the JSON object it holds.
Payload == Returned.body[1]

\* C1: a rewritten GET request comes back with the '_splash_processed'
\* marker and without the 'splash' attachment, and handed to the engine; a
\* second pass of process_request over a request carrying the marker returns
\* None and changes nothing (no rewrite, no counter, no warning), so the
\* request goes on to the downloader with the marker it was given; no request
\* in the engine carries both the marker and the attachment.
C1_Idempotence ==
    /\ Rewrote =>
          /\ last.ret # None
          /\ Returned.meta._splash_processed = Given.meta.splash
          /\ Returned.meta.splash = None
          /\ Returned.method = "POST"
          /\ Returned \in scheduled
    /\ (CalledRequestHook /\ Given.meta._splash_processed # None) =>
          /\ last.ret = None
          /\ NoEffect
          /\ ~last.warned
          /\ Given \in sent
    /\ \A r \in scheduled \cup sent :
          r.meta._splash_processed # None => r.meta.splash = None

C1_SecondPass ==
    /\ CalledRequestHook
    /\ Given.meta._splash_processed # None
    /\ Given.method = "POST"
    /\ last.ret = None

\* C2: for a request whose method is not GET and that carries an
\* attachment, process_request leaves the request as it was (attachment
\* present, no marker), logs the warning, changes no counter, and the
\* request goes on to the downloader as a pass-through: it is not handed
\* back to the engine for scheduling.
C2_NonGetPassesThrough ==
    (CalledRequestHook /\ Given.method # "GET" /\ Attached) =>
        /\ NoEffect
        /\ Given.meta.splash # None
        /\ Given.meta._splash_processed = None
        /\ last.warned
        /\ Given \in sent
        /\ Given \notin scheduled

PolicyToApply ==
    LET o == last.options[Given.meta.splash[1]]
    IN  IF o.slot_policy # None THEN o.slot_policy[1] ELSE last.self.slot_policy

\* C4 (as claimed): every policy name process_request applies to a request,
\* from the instance or from the request's own 'slot_policy' option, is one
\* of the three known policies, and an instance exists only for a known
\* configured policy.
C4_AppliedPolicyKnown ==
    /\ mw.state = "active" => mw.slot_policy \in _known
    /\ Rewrote => last.policy[1] \in _known

\* C4 (amended): from_crawler builds an instance only for a known configured
\* policy and otherwise raises NotConfigured, after which no request is ever
\* processed; so the policy applied to a request whose options name none is
\* known.  A request's own 'slot_policy' is applied as it is, unchecked: an
\* unknown name is not rejected at request time either, the request is
\* rewritten and its download_slot left as it was.
C4_ConfiguredPolicyKnown ==
    /\ mw.state = "active" => mw.slot_policy \in _known
    /\ mw.state = "NotConfigured" =>
          /\ mw.slot_policy \notin _known
          /\ last.op = "from_crawler"
          /\ stats = ZeroStats
          /\ scheduled = {} /\ sent = {}
    /\ Rewrote =>
          /\ last.policy = Some(PolicyToApply)
          /\ last.options[Given.meta.splash[1]].slot_policy = None
                => last.policy[1] \in _known
          /\ last.policy[1] \notin _known =>
                /\ last.ret # None
                /\ Returned.method = "POST"
                /\ Returned.meta.download_slot = Given.meta.download_slot
                /\ last.meta[1].download_slot = Given.meta.download_slot

C4_UnknownPolicyApplied ==
    /\ Rewrote
    /\ last.policy = Some("bogus")
    /\ Returned.method = "POST"

\* The download_timeout in force: 1e6 stands for none.
Effective(timeout) == IF timeout = None THEN NoTimeout ELSE timeout[1]

\* C5: timeout reconciliation never lowers download_timeout.  When the
\* payload has a 'timeout' T, the download_timeout in force afterwards is
\* max(current, T + 5), current being 1e6 when unset (T = 10: 5 becomes 15,
\* 20 stays 20), and the key is written only when that raises it; without a
\* 'timeout' download_timeout is as it was, unset if it was unset.  The
\* request returned carries the same download_timeout.
C5_TimeoutNeverLowered ==
    Rewrote =>
        LET before == Given.meta.download_timeout
            after == last.meta[1].download_timeout
        IN  /\ Returned.meta.download_timeout = after
            /\ Effective(after) >= Effective(before)
            /\ "timeout" \in DOMAIN Payload =>
                  /\ Effective(after) = Max(Effective(before), Payload.timeout + 5)
                  /\ after # before => after = Some(Payload.timeout + 5)
                  /\ (Payload.timeout = 10 /\ before = Some(5)) => after = Some(15)
                  /\ (Payload.timeout = 10 /\ before = Some(20)) => after = Some(20)
            /\ "timeout" \notin DOMAIN Payload => after = before

C5_TimeoutRaised ==
    /\ Rewrote
    /\ Given.meta.download_timeout = Some(5)
    /\ "timeout" \in DOMAIN Payload
    /\ Payload.timeout = 10
    /\ Returned.meta.download_timeout = Some(15)

\* C6: the policy applied is the request's own 'slot_policy' when present,
\* otherwise the instance's.  Under single_slot the request returned has
\* download_slot '__splash__' whatever its host; under per_domain it has the
\* downloader's key of the original request, its host name; under
\* scrapy_default download_slot is as the caller left it.  So over all
\* rewrites single_slot yields one key, and per_domain yields equal keys for
\* equal hosts and different keys for different hosts.
C6_PartitionKey ==
    /\ Rewrote =>
          /\ last.policy = Some(PolicyToApply)
          /\ Returned.meta.download_slot = last.meta[1].download_slot
          /\ PolicyToApply = SINGLE_SLOT =>
                Returned.meta.download_slot = Some("__splash__")
          /\ PolicyToApply = PER_DOMAIN =>
                Returned.meta.download_slot = Some(Given.url.host)
          /\ PolicyToApply = SCRAPY_DEFAULT =>
                Returned.meta.download_slot = Given.meta.download_slot
    /\ \A x, y \in assigned :
          /\ (x[1] = SINGLE_SLOT /\ y[1] = SINGLE_SLOT) => x[3] = y[3]
          /\ (x[1] = PER_DOMAIN /\ y[1] = PER_DOMAIN) => (x[2] = y[2] <=> x[3] = y[3])

C6_TwoHostsTwoSlots ==
    /\ <<PER_DOMAIN, "a.example.com", Some("a.example.com")>> \in assigned
    /\ <<PER_DOMAIN, "b.example.com", Some("b.example.com")>> \in assigned
    /\ Rewrote
    /\ Given.meta.download_slot = Some("custom")

\* The options dict attached to the request given, and its 'args' dict, as
\* the caller wrote them.
CallerOptionsOfGiven == callerOptions[Given.meta.splash[1]]

CallerArgsOfGiven ==
    IF CallerOptionsOfGiven.args # None
    THEN callerArgs[CallerOptionsOfGiven.args[1]]
    ELSE EmptyArgs

\* The endpoint a request was sent to: the last segment of its URL.
EndpointOf(request) == request.url.file

\* C7: a rewrite adds 1 to request_count of the endpoint it resolved and to
\* nothing else, and the other outcomes of process_request change no
\* counter; process_response on a request carrying the marker adds 1 to
\* response_count of (the endpoint that request was rewritten to, the
\* status) and to nothing else, on a request without the marker it changes
\* no counter, and it returns the response as given; a request rewritten
\* for a proxy counts under 'execute' on both sides; no counter decreases.
C7_StatsAccounting ==
    /\ Rewrote => stats = [last.stats EXCEPT ![<<EndpointOf(Returned), "request_count", 0>>] = @ + 1]
    /\ (Rewrote /\ Given.meta.proxy \notin {None, Some(EmptyUrl)}) =>
          EndpointOf(Returned) = "execute"
    /\ (CalledRequestHook /\ ~Rewrote) => stats = last.stats
    /\ CalledResponseHook =>
          /\ last.returned = last.response
          /\ Given.meta._splash_processed # None =>
                stats = [last.stats EXCEPT
                            ![<<EndpointOf(Given), "response_count",
                                last.response[1].status>>] = @ + 1]
          /\ Given.meta._splash_processed = None => stats = last.stats
    /\ last.op # "none" => \A k \in StatKeys : stats[k] >= last.stats[k]

\* C8: a GET request with an attachment and a non-empty 'proxy' is rewritten
\* with a 'lua_source' script in its payload that names the proxy's host and
\* port, to the 'execute' endpoint of the base URL whatever endpoint the
\* caller gave, and neither its own metadata nor the metadata of the request
\* returned has 'proxy' any more; a request without a proxy gets no script
\* in its payload and goes to the caller's endpoint, or to 'render.json'.
C8_ProxyRewrite ==
    Rewrote =>
        LET base == IF CallerOptionsOfGiven.splash_url # None
                    THEN CallerOptionsOfGiven.splash_url[1]
                    ELSE mw.splash_base_url
        IN  IF Given.meta.proxy \notin {None, Some(EmptyUrl)}
            THEN /\ "lua_source" \in DOMAIN Payload
                 /\ Payload.lua_source.set_proxy =
                        [host |-> Given.meta.proxy[1].host,
                         port |-> Given.meta.proxy[1].port]
                 /\ Returned.url = urljoin(base, "execute")
                 /\ last.meta[1].proxy = None
                 /\ Returned.meta.proxy = None
            ELSE /\ "lua_source" \notin DOMAIN Payload
                 /\ Returned.url.file =
                        (IF CallerOptionsOfGiven.endpoint # None
                         THEN CallerOptionsOfGiven.endpoint[1]
                         ELSE "render.json")

\* C9: the payload of every rewritten request has a 'url', which is the URL
\* of the request being rewritten unless the caller gave a 'url' in that
\* request's 'args'; with options {args: {}}, the default base URL and the
\* default endpoint the request goes to http://127.0.0.1:8050/render.json
\* with the body {"url": <its own URL>}.
C9_PayloadUrl ==
    Rewrote =>
        /\ "url" \in DOMAIN Payload
        /\ Payload.url = (IF CallerArgsOfGiven.url # None
                          THEN CallerArgsOfGiven.url[1]
                          ELSE Given.url)
        /\ ( /\ CallerOptionsOfGiven = [EmptyOptions EXCEPT !.args = Some("a1")]
             /\ CallerArgsOfGiven = EmptyArgs
             /\ Given.meta.proxy = None
             /\ mw.splash_base_url = Url("127.0.0.1", 8050, "", "") )
           => /\ Returned.url = Url("127.0.0.1", 8050, "/", "render.json")
              /\ Payload = [url |-> Given.url]

\* C10: a rewritten request (URL, endpoint, body, metadata, headers) is what
\* rewriting that request alone, with the caller's dicts as the caller wrote
\* them, would give, also when the caller attached the same options dict or
\* the same 'args' dict to other requests; and no hook call changes the
\* instance's configuration.
C10_RewrittenAsIfAlone ==
    /\ Rewrote =>
          last.ret = rewrite(last.self, Given, Given.meta.splash[1],
                             callerOptions, callerArgs).ret
    /\ (CalledRequestHook \/ CalledResponseHook) => mw = last.self

====
